---- MODULE Spec2Model ----
(***************************************************************************)
(* Model of the Giphy search view (src/src/App.tsx).                       *)
(*                                                                         *)
(* The component holds five pieces of React state (query, gifs, loading,   *)
(* error, viewer).  search() is an async function: everything up to the    *)
(* axios.get call runs inside the UI event that invoked it, and the rest   *)
(* (try / catch / finally) runs when the request's promise settles.  The   *)
(* requests that have been issued and have not settled yet are kept in     *)
(* `inflight`.  The variables op, last and resolved are history variables: *)
(* they record which handler ran last and how requests settled, and no     *)
(* handler reads them.                                                     *)
(***************************************************************************)
EXTENDS Naturals, Sequences, FiniteSets, TLC

\* ---------------------------------------------------------------- bounds
\* longest text typed into the query field
MaxLen == 2
\* number of requests dispatched in one behaviour
MaxSearches == 2

\* ------------------------------------------------------------- constants
\* `limit` parameter of the request
Limit == 24
\* `rating` parameter of the request
Rating == "g"
\* `lang` parameter of the request
Lang == "en"
\* the endpoint the request goes to
Endpoint == "https://api.giphy.com/v1/gifs/search"
\* message shown when the failure carries none
Fallback == "Failed to fetch GIFs"
\* the null of `error` and `viewer`
Null == "null"

\* ----------------------------------------------------------- input sets
\* characters of the query text: one whitespace character, one letter
Chars == {" ", "a"}
\* identifiers of the result items the API can return
GifIds == {"g1", "g2"}

RECURSIVE StringsUpTo(_)
StringsUpTo(n) ==
  IF n = 0 THEN {<<>>}
  ELSE LET shorter == StringsUpTo(n - 1)
       IN  shorter \cup {Append(s, c) : s \in {t \in shorter : Len(t) = n - 1}, c \in Chars}

\* texts the user can put into the query field
Queries == StringsUpTo(MaxLen)

Range(s) == {s[i] : i \in 1..Len(s)}

\* item lists of a response: identifiers are unique within one list
Lists ==
  {<<>>} \cup {<<a>> : a \in GifIds}
         \cup {p \in {<<a, b>> : a \in GifIds, b \in GifIds} : p[1] # p[2]}

\* what a settled request hands back when it succeeds: res.data is missing,
\* res.data has no list field, or res.data.data is a list of items
Bodies ==
  [kind : {"nodata", "nolist"}, list : {<<>>}] \cup [kind : {"list"}, list : Lists]

\* what a settled request throws when it fails: a value without a message,
\* with an empty message, or with the message "timeout"
Failures ==
  {[hasMessage |-> FALSE, message |-> ""],
   [hasMessage |-> TRUE, message |-> ""],
   [hasMessage |-> TRUE, message |-> "timeout"]}

NoBody == [kind |-> "nodata", list |-> <<>>]
NoFailure == [hasMessage |-> FALSE, message |-> ""]

\* ------------------------------------------------------- pure functions
IsSpace(c) == c = " "

\* String.prototype.trim: drop the whitespace at both ends
RECURSIVE TrimStart(_)
TrimStart(s) ==
  IF s = <<>> THEN <<>>
  ELSE IF IsSpace(Head(s)) THEN TrimStart(Tail(s)) ELSE s

RECURSIVE TrimEnd(_)
TrimEnd(s) ==
  IF s = <<>> THEN <<>>
  ELSE IF IsSpace(s[Len(s)]) THEN TrimEnd(SubSeq(s, 1, Len(s) - 1)) ELSE s

Trim(s) == TrimEnd(TrimStart(s))

IsBlankUntrimmed(q) == q = <<>>

\* !query.trim()
IsBlank(q) == Trim(q) = <<>>

\* the params object handed to axios.get
RequestParams(q) ==
  [url |-> Endpoint, q |-> q, limit |-> Limit, rating |-> Rating, lang |-> Lang]

\* res.data?.data ?? []
ParseList(body) == IF body.kind = "list" THEN body.list ELSE <<>>

ErrorMessageNullish(e) == IF e.hasMessage THEN e.message ELSE Fallback

\* e?.message || "Failed to fetch GIFs"
ErrorMessage(e) ==
  IF e.hasMessage /\ e.message # "" THEN e.message ELSE Fallback

\* ----------------------------------------------------------------- state
VARIABLES
  query,     \* useState("")      text of the query field
  gifs,      \* useState([])      the result list on screen
  loading,   \* useState(false)
  error,     \* useState(null)    Null or the message on screen
  viewer,    \* useState(null)    Null or the item in the modal
  inflight,  \* requests issued by axios.get and not settled yet
  nextId,    \* number of the next request (order of dispatch)
  op,        \* history: the handler that ran last
  last,      \* history: the request that settled last and what it returned
  resolved   \* history: the settled requests, in the order they settled

vars == <<query, gifs, loading, error, viewer, inflight, nextId, op, last, resolved>>

Init ==
  /\ query = <<>>
  /\ gifs = <<>>
  /\ loading = FALSE
  /\ error = Null
  /\ viewer = Null
  /\ inflight = {}
  /\ nextId = 1
  /\ op = "init"
  /\ last = [id |-> 0, ok |-> TRUE, body |-> NoBody, err |-> NoFailure, before |-> <<>>]
  /\ resolved = <<>>

\* -------------------------------------------------------------- handlers
\* input onChange: setQuery(e.target.value)
SetQuery(s) ==
  /\ query' = s
  /\ op' = "setQuery"
  /\ UNCHANGED <<gifs, loading, error, viewer, inflight, nextId, last, resolved>>

searchKeepError ==
  /\ op' = "search"
  /\ IF IsBlank(query)
     THEN UNCHANGED <<query, gifs, loading, error, viewer, inflight, nextId, last, resolved>>
     ELSE /\ nextId <= MaxSearches
          /\ loading' = TRUE
          /\ inflight' = inflight \cup {[id |-> nextId, params |-> RequestParams(query)]}
          /\ nextId' = nextId + 1
          /\ UNCHANGED <<query, gifs, error, viewer, last, resolved>>

\* search(), up to the await: return on a blank query, otherwise set the
\* flags and issue the request
search ==
  /\ op' = "search"
  /\ IF IsBlank(query)
     THEN UNCHANGED <<query, gifs, loading, error, viewer, inflight, nextId, last, resolved>>
     ELSE /\ nextId <= MaxSearches
          /\ loading' = TRUE
          /\ error' = Null
          /\ inflight' = inflight \cup {[id |-> nextId, params |-> RequestParams(query)]}
          /\ nextId' = nextId + 1
          /\ UNCHANGED <<query, gifs, viewer, last, resolved>>

\* input onKeyDown: Enter calls search() whatever the loading flag is
PressEnter == search

\* button onClick: the button is disabled while loading or on a blank query
ClickSearch ==
  /\ ~(loading \/ IsBlank(query))
  /\ search

ResolveSuccessGuarded(r, body) ==
  /\ r \in inflight
  /\ gifs' = IF r.id = nextId - 1 THEN ParseList(body) ELSE gifs
  /\ loading' = FALSE
  /\ inflight' = inflight \ {r}
  /\ op' = "resolve"
  /\ last' = [id |-> r.id, ok |-> TRUE, body |-> body, err |-> NoFailure, before |-> gifs]
  /\ resolved' = Append(resolved, [id |-> r.id, ok |-> TRUE])
  /\ UNCHANGED <<query, error, viewer, nextId>>

ResolveSuccessLiveViewer(r, body) ==
  /\ r \in inflight
  /\ gifs' = ParseList(body)
  /\ viewer' = IF viewer \in Range(ParseList(body)) THEN viewer ELSE Null
  /\ loading' = FALSE
  /\ inflight' = inflight \ {r}
  /\ op' = "resolve"
  /\ last' = [id |-> r.id, ok |-> TRUE, body |-> body, err |-> NoFailure, before |-> gifs]
  /\ resolved' = Append(resolved, [id |-> r.id, ok |-> TRUE])
  /\ UNCHANGED <<query, error, nextId>>

\* search(), after the await, when the request succeeded: the try block's
\* setGifs and the finally block's setLoading(false)
ResolveSuccess(r, body) ==
  /\ r \in inflight
  /\ gifs' = ParseList(body)
  /\ loading' = FALSE
  /\ inflight' = inflight \ {r}
  /\ op' = "resolve"
  /\ last' = [id |-> r.id, ok |-> TRUE, body |-> body, err |-> NoFailure, before |-> gifs]
  /\ resolved' = Append(resolved, [id |-> r.id, ok |-> TRUE])
  /\ UNCHANGED <<query, error, viewer, nextId>>

ResolveFailureNoFinally(r, e) ==
  /\ r \in inflight
  /\ error' = ErrorMessage(e)
  /\ inflight' = inflight \ {r}
  /\ op' = "resolve"
  /\ last' = [id |-> r.id, ok |-> FALSE, body |-> NoBody, err |-> e, before |-> gifs]
  /\ resolved' = Append(resolved, [id |-> r.id, ok |-> FALSE])
  /\ UNCHANGED <<query, gifs, loading, viewer, nextId>>

\* search(), after the await, when the request failed: the catch block's
\* setError and the finally block's setLoading(false)
ResolveFailure(r, e) ==
  /\ r \in inflight
  /\ error' = ErrorMessage(e)
  /\ loading' = FALSE
  /\ inflight' = inflight \ {r}
  /\ op' = "resolve"
  /\ last' = [id |-> r.id, ok |-> FALSE, body |-> NoBody, err |-> e, before |-> gifs]
  /\ resolved' = Append(resolved, [id |-> r.id, ok |-> FALSE])
  /\ UNCHANGED <<query, gifs, viewer, nextId>>

\* thumbnail onClick: setViewer(g), g one of the cards of gifs.map
OpenPreview(g) ==
  /\ g \in Range(gifs)
  /\ viewer' = g
  /\ op' = "openPreview"
  /\ UNCHANGED <<query, gifs, loading, error, inflight, nextId, last, resolved>>

ClosePreviewResets ==
  /\ viewer # Null
  /\ viewer' = Null
  /\ gifs' = <<>>
  /\ op' = "closePreview"
  /\ UNCHANGED <<query, loading, error, inflight, nextId, last, resolved>>

\* overlay onClick and the Close button: setViewer(null); both are rendered
\* only while viewer is set
ClosePreview ==
  /\ viewer # Null
  /\ viewer' = Null
  /\ op' = "closePreview"
  /\ UNCHANGED <<query, gifs, loading, error, inflight, nextId, last, resolved>>

\* a request settles, one way or the other
Resolve ==
  \E r \in inflight :
    \/ \E body \in Bodies : ResolveSuccess(r, body)
    \/ \E e \in Failures : ResolveFailure(r, e)

Next ==
  \/ \E s \in Queries : SetQuery(s)
  \/ PressEnter
  \/ ClickSearch
  \/ \E r \in inflight, body \in Bodies : ResolveSuccess(r, body)
  \/ \E r \in inflight, e \in Failures : ResolveFailure(r, e)
  \/ \E g \in GifIds : OpenPreview(g)
  \/ ClosePreview

Spec == Init /\ [][Next]_vars

\* every request that was issued settles at some point
LiveSpec == Spec /\ WF_vars(Resolve)

TypeOK ==
  /\ query \in Queries
  /\ gifs \in Lists
  /\ loading \in BOOLEAN
  /\ error \in {Null, Fallback, "timeout"}
  /\ viewer \in GifIds \cup {Null}
  /\ nextId \in 1..(MaxSearches + 1)
  /\ \A r \in inflight : r.id \in 1..(nextId - 1)

\* ------------------------------------------------------------ properties
\* the requests a step issues
Issued == inflight' \ inflight

\* C1: a call of search() on a query that is not blank after trimming issues
\* exactly one request, and the q parameter of that request is the trimmed
\* query.
C1_OneRequestWithTrimmedQuery ==
  [][(op' = "search" /\ Trim(query) # <<>>)
       => /\ Cardinality(Issued) = 1
          /\ inflight \subseteq inflight'
          /\ \A r \in Issued : r.params.q = Trim(query)]_vars

\* C2: a call of search() on an empty or whitespace-only query issues no
\* request and changes none of query, gifs, loading, error and viewer,
\* whatever else is going on.
C2_BlankQueryIsNoOp ==
  [][(op' = "search" /\ \A i \in 1..Len(query) : query[i] = " ")
       => /\ inflight' = inflight
          /\ nextId' = nextId
          /\ UNCHANGED <<query, gifs, loading, error, viewer>>]_vars

\* C2 witness: search() was called on a whitespace-only query while a request
\* was in flight and an error was on screen.
C2_Witness ==
  /\ op = "search"
  /\ query # <<>>
  /\ \A i \in 1..Len(query) : query[i] = " "
  /\ inflight # {}
  /\ error # Null

\* C3: right after a request succeeds, gifs is the list of the response (the
\* empty list when the response has none), loading is false and no error is
\* set.
C3_SuccessGivesIdle ==
  [][(op' = "resolve" /\ last'.ok)
       => /\ gifs' = (IF last'.body.kind = "list" THEN last'.body.list ELSE <<>>)
          /\ loading' = FALSE
          /\ error' = Null]_vars

\* C4: right after a request fails, error is a non-empty message (the
\* failure's own message, or the fallback when it has none or an empty one),
\* loading is false and gifs is what it was.
C4_FailureGivesError ==
  [][(op' = "resolve" /\ ~last'.ok)
       => /\ error' # Null
          /\ error' # ""
          /\ error' = (IF last'.err.hasMessage /\ last'.err.message # ""
                       THEN last'.err.message ELSE "Failed to fetch GIFs")
          /\ loading' = FALSE
          /\ gifs' = gifs]_vars

\* C4 witness: a request failed with an empty message while results were on
\* screen; the fallback is shown and the results are still there.
C4_Witness ==
  /\ op = "resolve"
  /\ ~last.ok
  /\ last.err.hasMessage
  /\ last.err.message = ""
  /\ error = Fallback
  /\ gifs # <<>>
  /\ gifs = last.before

\* C5: as long as a request is in flight, loading is true.
C5_LoadingWhileInFlight == inflight # {} => loading

\* C6: loading and an error message are never set together.
C6_LoadingExcludesError == ~(loading /\ error # Null)

\* C6 witness: two searches overlapped, one has failed and left its message
\* on screen, the other is still in flight.
C6_Witness ==
  /\ error # Null
  /\ ~loading
  /\ inflight # {}
  /\ Len(resolved) = 1

\* C7: when two searches overlap and both succeed, and the one dispatched
\* first settles last, gifs is the response of the one dispatched first.
C7_LastSettledWins ==
  \A i \in 1..Len(resolved) :
    ( /\ i < Len(resolved)
      /\ resolved[i].ok
      /\ resolved[Len(resolved)].ok
      /\ resolved[Len(resolved)].id < resolved[i].id )
    => ( /\ last.id = resolved[Len(resolved)].id
         /\ gifs = (IF last.body.kind = "list" THEN last.body.list ELSE <<>>) )

\* C7 witness: the second search settled first, the first search settled
\* after it, both succeeded, and gifs is the first search's response, which
\* replaced the second one's.
C7_Witness ==
  /\ inflight = {}
  /\ resolved = <<[id |-> 2, ok |-> TRUE], [id |-> 1, ok |-> TRUE]>>
  /\ last.id = 1
  /\ last.body.kind = "list"
  /\ gifs = last.body.list
  /\ gifs # last.before
  /\ last.before # <<>>

\* C8: openPreview and closePreview change none of gifs, loading, error and
\* query, and closePreview right after openPreview leaves viewer empty.
C8_PreviewFrame ==
  [][ /\ (op' \in {"openPreview", "closePreview"}
            => UNCHANGED <<gifs, loading, error, query>>)
      /\ ((op = "openPreview" /\ op' = "closePreview") => viewer' = Null) ]_vars

\* C8 witness: a preview was opened and closed while results were on screen
\* and a search was in flight.
C8_Witness ==
  /\ op = "closePreview"
  /\ viewer = Null
  /\ gifs # <<>>
  /\ loading
  /\ inflight # {}

\* C9: viewer changes only by openPreview, to an item of gifs as it is then,
\* and by closePreview, to empty; no search call and no settled request
\* changes it.
C9_ViewerIsACopy ==
  [][ /\ (viewer' # viewer
            => \/ (op' = "openPreview" /\ viewer' \in Range(gifs))
               \/ (op' = "closePreview" /\ viewer' = Null))
      /\ (op' \in {"search", "resolve"} => viewer' = viewer) ]_vars

\* C9 witness: a later search replaced gifs by a non-empty list without the
\* item of the open preview.
C9_Witness ==
  /\ op = "resolve"
  /\ last.ok
  /\ viewer # Null
  /\ gifs # <<>>
  /\ viewer \notin Range(gifs)
  /\ viewer \in Range(last.before)

\* C10: when every request settles at some point, loading does not stay
\* true for ever.
C10_LoadingEnds == loading ~> ~loading

\* C10 witness: two searches overlap and loading is true.
C10_Witness ==
  /\ loading
  /\ Cardinality(inflight) = 2

====
